---------------------------- MODULE Spec2Model ----------------------------
(***************************************************************************)
(* Model of the songpal config flow / options flow                         *)
(* (homeassistant/components/songpal/config_flow.py) and of the growatt    *)
(* storage sensor table                                                    *)
(* (homeassistant/components/growatt_server/sensor_types/storage.py).      *)
(*                                                                         *)
(* Python strings are sequences of one-character strings, so that parsing  *)
(* and re-assembling a URL is computed and never assumed.  Python's None   *)
(* is the one-element sequence None, which is no character sequence.       *)
(***************************************************************************)
EXTENDS Integers, Sequences, FiniteSets, TLC

VARIABLES
    flows,      \* flow id -> the SongpalConfigFlow object, its position and last result
    entries,    \* the host's config entry registry for this domain, in creation order
    opt,        \* the last call of SongpalOptionsFlowHandler.async_step_init
    url_in,     \* the endpoint string handed to _urlparse
    url_out,    \* <<what _urlparse returned for it>>, empty before the call
    ti, tj      \* positions of a pairwise pass over STORAGE_SENSOR_TYPES

flowVars == <<flows, entries, opt>>
urlVars == <<url_in, url_out>>
tableVars == <<ti, tj>>
vars == <<flows, entries, opt, url_in, url_out, ti, tj>>

-----------------------------------------------------------------------------
(* Python values *)

None == <<"<None>">>
Truthy(x) == x # None /\ x # <<>>
\* Python's  a or b
PyOr(a, b) == IF Truthy(a) THEN a ELSE b
\* str(x) for a string or None
Str(x) == IF x = None THEN <<"N", "o", "n", "e">> ELSE x

-----------------------------------------------------------------------------
(* urllib.parse, as far as the characters of the model's alphabet go: no    *)
(* '?', '#', ';', '@', '[', ']' and no white space occur in any input.     *)

Letters == {"h", "t", "p", "s", "o", "n", "y", "e", "N", "H"}
Digits == {"0", "1"}
SchemeChars == Letters \cup Digits \cup {"+", "-", "."}
Lower(c) == IF c = "H" THEN "h" ELSE IF c = "N" THEN "n" ELSE c
LowerStr(s) == [i \in 1..Len(s) |-> Lower(s[i])]
Tail2(s, i) == SubSeq(s, i, Len(s))

\* str.find: the first position of character c in s, 0 when there is none
Find(s, c) ==
    IF \E i \in 1..Len(s) : s[i] = c
    THEN CHOOSE i \in 1..Len(s) : s[i] = c /\ \A j \in 1..(i - 1) : s[j] # c
    ELSE 0

HTTP == <<"h", "t", "t", "p">>
\* the schemes of urllib.parse.uses_netloc that the alphabet can spell
UsesNetloc == {HTTP, <<"h", "t", "t", "p", "s">>}

\* urlsplit's scheme rule (CPython 3.11): a ':' after a non-empty run of scheme
\* characters that starts with a letter
HasScheme(url) ==
    LET i == Find(url, ":") IN
    /\ i > 1
    /\ url[1] \in Letters
    /\ \A k \in 1..(i - 1) : url[k] \in SchemeChars

urlparse(url) ==
    LET i == Find(url, ":")
        scheme == IF HasScheme(url) THEN LowerStr(SubSeq(url, 1, i - 1)) ELSE <<>>
        rest == IF HasScheme(url) THEN Tail2(url, i + 1) ELSE url
        slashes == Len(rest) >= 2 /\ rest[1] = "/" /\ rest[2] = "/"
        after == Tail2(rest, 3)
        d == Find(after, "/")
        netloc == IF ~slashes THEN <<>>
                  ELSE IF d = 0 THEN after ELSE SubSeq(after, 1, d - 1)
        path == IF ~slashes THEN rest
                ELSE IF d = 0 THEN <<>> ELSE Tail2(after, d)
    IN [scheme |-> scheme, netloc |-> netloc, path |-> path]

\* ParseResult.hostname: the netloc up to its ':', lower-cased; None when empty
hostname(p) ==
    LET c == Find(p.netloc, ":")
        h == IF c = 0 THEN p.netloc ELSE SubSeq(p.netloc, 1, c - 1)
    IN IF h = <<>> THEN None ELSE LowerStr(h)

\* ParseResult.geturl, that is urlunsplit
geturl(p) ==
    LET dbl == Len(p.path) >= 2 /\ p.path[1] = "/" /\ p.path[2] = "/"
        withNetloc == \/ p.netloc # <<>>
                      \/ (p.scheme # <<>> /\ p.scheme \in UsesNetloc /\ ~dbl)
        path1 == IF withNetloc /\ p.path # <<>> /\ p.path[1] # "/"
                 THEN <<"/">> \o p.path ELSE p.path
        url1 == IF withNetloc THEN <<"/", "/">> \o p.netloc \o path1 ELSE p.path
    IN IF p.scheme # <<>> THEN p.scheme \o <<":">> \o url1 ELSE url1

\* ParseResult._replace(scheme=..), (netloc=..), (path=..): each returns a NEW tuple
ReplaceScheme(p, s) == [p EXCEPT !.scheme = s]
ReplaceNetloc(p, n) == [p EXCEPT !.netloc = n]
ReplacePath(p, x) == [p EXCEPT !.path = x]

PORT_SUFFIX == <<":", "1", "0", "0", "0", "0">>
SONY == <<"s", "o", "n", "y">>

\* _urlparse: the three _replace calls of lines 28-30 build new tuples that are
\* dropped; parsed_url is never rebound, so the value of line 25 is returned
_urlparse(endpoint) ==
    LET parsed_url == urlparse(endpoint)
        dropped == IF parsed_url.scheme = <<>>
                   THEN <<ReplaceScheme(parsed_url, HTTP),
                          ReplaceNetloc(parsed_url, parsed_url.path \o PORT_SUFFIX),
                          ReplacePath(parsed_url, SONY)>>
                   ELSE <<>>
    IN parsed_url

-----------------------------------------------------------------------------
(* _urlparse on its own: every endpoint string up to MaxUrlLen characters   *)

MaxUrlLen == 4
UrlAlphabet == {"h", "H", "1", ".", ":", "/"}
RECURSIVE StringsUpTo(_)
StringsUpTo(n) ==
    IF n = 0 THEN {<<>>}
    ELSE LET shorter == StringsUpTo(n - 1) IN
         shorter \cup {Append(s, c) : s \in {x \in shorter : Len(x) = n - 1},
                                      c \in UrlAlphabet}

\* endpoints a user would type or a device would advertise
HOST_H == <<"h">>
URL_H == <<"h", "t", "t", "p", ":", "/", "/", "h", ":", "1", "/", "s">>
URL_T == <<"h", "t", "t", "p", ":", "/", "/", "t", ":", "1", "/", "s">>

UrlInputs == StringsUpTo(MaxUrlLen) \cup {HOST_H, URL_H, URL_T, Str(None)}

UrlInit == url_in \in UrlInputs /\ url_out = <<>>
UrlIdle == url_in = <<>> /\ url_out = <<>>

UrlParseCall ==
    /\ url_out = <<>>
    /\ url_out' = <<_urlparse(url_in)>>
    /\ UNCHANGED <<url_in, flowVars, tableVars>>

-----------------------------------------------------------------------------
(* growatt_server/sensor_types/storage.py.  A key is the sequence of its    *)
(* '_'-separated parts and an api_key the sequence of its camel-case words *)
(* (split before every capital letter), so that two of them are equal      *)
(* exactly when the strings are, and a suffix is the last element.  A      *)
(* field the source leaves out holds its default, "None" (<<>> for the     *)
(* precision).                                                             *)

StorageDescriptors == <<
    \* lines 17-23
    [key |-> <<"storage", "storage", "production", "today">>,
     name |-> "Storage production today", api_key |-> <<"e", "Bat", "Dis", "Charge", "Today">>,
     native_unit_of_measurement |-> "ENERGY_KILO_WATT_HOUR", device_class |-> "ENERGY",
     state_class |-> "None", precision |-> <<>>],
    \* lines 24-31
    [key |-> <<"storage", "storage", "production", "lifetime">>,
     name |-> "Lifetime Storage production", api_key |-> <<"e", "Bat", "Dis", "Charge", "Total">>,
     native_unit_of_measurement |-> "ENERGY_KILO_WATT_HOUR", device_class |-> "ENERGY",
     state_class |-> "TOTAL", precision |-> <<>>],
    \* lines 32-38
    [key |-> <<"storage", "grid", "discharge", "today">>,
     name |-> "Grid discharged today", api_key |-> <<"eac", "Dis", "Charge", "Today">>,
     native_unit_of_measurement |-> "ENERGY_KILO_WATT_HOUR", device_class |-> "ENERGY",
     state_class |-> "None", precision |-> <<>>],
    \* lines 39-45
    [key |-> <<"storage", "load", "consumption", "today">>,
     name |-> "Load consumption today", api_key |-> <<"eop", "Dischr", "Today">>,
     native_unit_of_measurement |-> "ENERGY_KILO_WATT_HOUR", device_class |-> "ENERGY",
     state_class |-> "None", precision |-> <<>>],
    \* lines 46-53
    [key |-> <<"storage", "load", "consumption", "lifetime">>,
     name |-> "Lifetime load consumption", api_key |-> <<"eop", "Dischr", "Total">>,
     native_unit_of_measurement |-> "ENERGY_KILO_WATT_HOUR", device_class |-> "ENERGY",
     state_class |-> "TOTAL", precision |-> <<>>],
    \* lines 54-60
    [key |-> <<"storage", "grid", "charged", "today">>,
     name |-> "Grid charged today", api_key |-> <<"eac", "Charge", "Today">>,
     native_unit_of_measurement |-> "ENERGY_KILO_WATT_HOUR", device_class |-> "ENERGY",
     state_class |-> "None", precision |-> <<>>],
    \* lines 61-68
    [key |-> <<"storage", "charge", "storage", "lifetime">>,
     name |-> "Lifetime storaged charged", api_key |-> <<"e", "Charge", "Total">>,
     native_unit_of_measurement |-> "ENERGY_KILO_WATT_HOUR", device_class |-> "ENERGY",
     state_class |-> "TOTAL", precision |-> <<>>],
    \* lines 69-75
    [key |-> <<"storage", "solar", "production">>,
     name |-> "Solar power production", api_key |-> <<"ppv">>,
     native_unit_of_measurement |-> "POWER_WATT", device_class |-> "POWER",
     state_class |-> "None", precision |-> <<>>],
    \* lines 76-82
    [key |-> <<"storage", "battery", "percentage">>,
     name |-> "Battery percentage", api_key |-> <<"capacity">>,
     native_unit_of_measurement |-> "PERCENTAGE", device_class |-> "BATTERY",
     state_class |-> "None", precision |-> <<>>],
    \* lines 83-89
    [key |-> <<"storage", "power", "flow">>,
     name |-> "Storage charging/ discharging(-ve)", api_key |-> <<"p", "Charge">>,
     native_unit_of_measurement |-> "POWER_WATT", device_class |-> "POWER",
     state_class |-> "None", precision |-> <<>>],
    \* lines 90-95
    [key |-> <<"storage", "load", "consumption", "solar", "storage">>,
     name |-> "Load consumption(Solar + Storage)", api_key |-> <<"rate", "V", "A">>,
     native_unit_of_measurement |-> "VA", device_class |-> "None",
     state_class |-> "None", precision |-> <<>>],
    \* lines 96-102
    [key |-> <<"storage", "charge", "today">>,
     name |-> "Charge today", api_key |-> <<"e", "Charge", "Today">>,
     native_unit_of_measurement |-> "ENERGY_KILO_WATT_HOUR", device_class |-> "ENERGY",
     state_class |-> "None", precision |-> <<>>],
    \* lines 103-109
    [key |-> <<"storage", "import", "from", "grid">>,
     name |-> "Import from grid", api_key |-> <<"p", "Ac", "In", "Put">>,
     native_unit_of_measurement |-> "POWER_WATT", device_class |-> "POWER",
     state_class |-> "None", precision |-> <<>>],
    \* lines 110-116
    [key |-> <<"storage", "import", "from", "grid", "today">>,
     name |-> "Import from grid today", api_key |-> <<"e", "To", "User", "Today">>,
     native_unit_of_measurement |-> "ENERGY_KILO_WATT_HOUR", device_class |-> "ENERGY",
     state_class |-> "None", precision |-> <<>>],
    \* lines 117-124
    [key |-> <<"storage", "import", "from", "grid", "total">>,
     name |-> "Import from grid total", api_key |-> <<"e", "To", "User", "Total">>,
     native_unit_of_measurement |-> "ENERGY_KILO_WATT_HOUR", device_class |-> "ENERGY",
     state_class |-> "TOTAL", precision |-> <<>>],
    \* lines 125-131
    [key |-> <<"storage", "load", "consumption">>,
     name |-> "Load consumption", api_key |-> <<"out", "Put", "Power">>,
     native_unit_of_measurement |-> "POWER_WATT", device_class |-> "POWER",
     state_class |-> "None", precision |-> <<>>],
    \* lines 132-139
    [key |-> <<"storage", "grid", "voltage">>,
     name |-> "AC input voltage", api_key |-> <<"v", "Grid">>,
     native_unit_of_measurement |-> "ELECTRIC_POTENTIAL_VOLT", device_class |-> "VOLTAGE",
     state_class |-> "None", precision |-> <<2>>],
    \* lines 140-147
    [key |-> <<"storage", "pv", "charging", "voltage">>,
     name |-> "PV charging voltage", api_key |-> <<"vpv">>,
     native_unit_of_measurement |-> "ELECTRIC_POTENTIAL_VOLT", device_class |-> "VOLTAGE",
     state_class |-> "None", precision |-> <<2>>],
    \* lines 148-154
    [key |-> <<"storage", "ac", "input", "frequency", "out">>,
     name |-> "AC input frequency", api_key |-> <<"freq", "Out", "Put">>,
     native_unit_of_measurement |-> "FREQUENCY_HERTZ", device_class |-> "None",
     state_class |-> "None", precision |-> <<2>>],
    \* lines 155-162
    [key |-> <<"storage", "output", "voltage">>,
     name |-> "Output voltage", api_key |-> <<"out", "Put", "Volt">>,
     native_unit_of_measurement |-> "ELECTRIC_POTENTIAL_VOLT", device_class |-> "VOLTAGE",
     state_class |-> "None", precision |-> <<2>>],
    \* lines 163-169
    [key |-> <<"storage", "ac", "output", "frequency">>,
     name |-> "Ac output frequency", api_key |-> <<"freq", "Grid">>,
     native_unit_of_measurement |-> "FREQUENCY_HERTZ", device_class |-> "None",
     state_class |-> "None", precision |-> <<2>>],
    \* lines 170-177
    [key |-> <<"storage", "current", "PV">>,
     name |-> "Solar charge current", api_key |-> <<"i", "Ac", "Charge">>,
     native_unit_of_measurement |-> "ELECTRIC_CURRENT_AMPERE", device_class |-> "CURRENT",
     state_class |-> "None", precision |-> <<2>>],
    \* lines 178-185
    [key |-> <<"storage", "current", "1">>,
     name |-> "Solar current to storage", api_key |-> <<"i", "Charge", "P", "V1">>,
     native_unit_of_measurement |-> "ELECTRIC_CURRENT_AMPERE", device_class |-> "CURRENT",
     state_class |-> "None", precision |-> <<2>>],
    \* lines 186-193
    [key |-> <<"storage", "grid", "amperage", "input">>,
     name |-> "Grid charge current", api_key |-> <<"chg", "Curr">>,
     native_unit_of_measurement |-> "ELECTRIC_CURRENT_AMPERE", device_class |-> "CURRENT",
     state_class |-> "None", precision |-> <<2>>],
    \* lines 194-201
    [key |-> <<"storage", "grid", "out", "current">>,
     name |-> "Grid out current", api_key |-> <<"out", "Put", "Current">>,
     native_unit_of_measurement |-> "ELECTRIC_CURRENT_AMPERE", device_class |-> "CURRENT",
     state_class |-> "None", precision |-> <<2>>],
    \* lines 202-209
    [key |-> <<"storage", "battery", "voltage">>,
     name |-> "Battery voltage", api_key |-> <<"v", "Bat">>,
     native_unit_of_measurement |-> "ELECTRIC_POTENTIAL_VOLT", device_class |-> "VOLTAGE",
     state_class |-> "None", precision |-> <<2>>],
    \* lines 210-217
    [key |-> <<"storage", "load", "percentage">>,
     name |-> "Load percentage", api_key |-> <<"load", "Percent">>,
     native_unit_of_measurement |-> "PERCENTAGE", device_class |-> "BATTERY",
     state_class |-> "None", precision |-> <<2>>] >>

\* the table with the copy-and-paste slip of a key left unedited
StorageDescriptorsDupKey ==
    [StorageDescriptors EXCEPT ![15].key = StorageDescriptors[14].key]
\* the table with the state class forgotten on one lifetime total
StorageDescriptorsNoTotal ==
    [StorageDescriptors EXCEPT ![15].state_class = "None"]

STORAGE_SENSOR_TYPES == StorageDescriptors

NumDescriptors == Len(STORAGE_SENSOR_TYPES)
Last(s) == s[Len(s)]
\* a lifetime total: the key ends in _lifetime or _total, the source field in Total
KeyIsLifetime(d) == Last(d.key) \in {"lifetime", "total"}
ApiIsTotal(d) == Last(d.api_key) = "Total"
ApiIsToday(d) == Last(d.api_key) = "Today"
IsEnergy(d) == d.native_unit_of_measurement = "ENERGY_KILO_WATT_HOUR"

\* the entity platform walks the tuple; here every pair of positions is visited
TableInit == ti = 1 /\ tj = 1
TableIdle == ti = 0 /\ tj = 0

TableNextColumn ==
    /\ ti \in 1..NumDescriptors
    /\ tj < NumDescriptors
    /\ tj' = tj + 1
    /\ UNCHANGED <<ti, flowVars, urlVars>>

TableNextRow ==
    /\ ti \in 1..(NumDescriptors - 1)
    /\ tj = NumDescriptors
    /\ ti' = ti + 1
    /\ tj' = 1
    /\ UNCHANGED <<flowVars, urlVars>>

-----------------------------------------------------------------------------
(* The host framework: flow results and the entry registry.                 *)

NoData == [name |-> None, endpoint |-> None]
NoResult ==
    [type |-> "none", step_id |-> "", reason |-> "", errors |-> {},
     placeholders |-> <<>>, title |-> None, data |-> NoData]

\* user_input: None, or a dict whose absent keys read as None through .get
NoInput == [given |-> FALSE, endpoint |-> None, name |-> None]
NoDiscovery ==
    [given |-> FALSE, udn |-> None, friendlyName |-> None, location |-> None,
     baseURL |-> None, serviceTypes |-> {}]
NoInfo == [given |-> FALSE, modelName |-> None, productName |-> None]

\* FlowHandler.async_show_form / async_abort / async_create_entry
async_show_form(step_id, errors, placeholders) ==
    [NoResult EXCEPT !.type = "form", !.step_id = step_id, !.errors = errors,
                     !.placeholders = placeholders]
async_abort(reason) == [NoResult EXCEPT !.type = "abort", !.reason = reason]
async_create_entry(title, data) ==
    [NoResult EXCEPT !.type = "create_entry", !.title = title, !.data = data]

\* ConfigFlow._async_abort_entries_match({CONF_ENDPOINT: endpoint}): some entry
\* of the domain holds this endpoint in its data
EntriesMatch(endpoint) ==
    \E i \in DOMAIN entries : entries[i].data.endpoint = endpoint
\* ConfigFlow._abort_if_unique_id_configured for the unique id just set
UniqueIdConfigured(unique_id) ==
    \E i \in DOMAIN entries : entries[i].unique_id = unique_id
\* the flow manager stores the entry of a create-entry result under the flow's
\* unique id
AddEntry(fl) ==
    Append(entries,
           [unique_id |-> fl.unique_id, title |-> fl.result.title,
            data |-> fl.result.data])

-----------------------------------------------------------------------------
(* SongpalConfigFlow *)

MaxFlows == 2
FlowIds == 1..MaxFlows

\* __init__ (lines 46-50), with the flow's context and its position
NewFlow ==
    [pc |-> "idle", source |-> "none", unique_id |-> None,
     endpoint |-> None, host |-> None, name |-> None,
     l_name |-> None, l_endpoint |-> None,
     result |-> NoResult,
     \* what the flow was given and did, for the properties
     discovery |-> NoDiscovery, user_input |-> NoInput, steps |-> <<>>,
     probe |-> "none", info |-> NoInfo, confirmed |-> FALSE, dup |-> FALSE]

Finished(fl, result) == [fl EXCEPT !.pc = "done", !.result = result]
Shown(fl, result) == [fl EXCEPT !.pc = "form", !.result = result]

\* line 100
EndpointOfGeturlFirst(fl, parsed_url) == PyOr(geturl(parsed_url), fl.endpoint)
EndpointOf(fl, parsed_url) == PyOr(fl.endpoint, geturl(parsed_url))

Enter(fl, step, user_input) ==
    [fl EXCEPT !.steps = Append(fl.steps, step), !.user_input = user_input]

\* async_step_init up to the first await of the probe (lines 76-104)
StepInit(fl0, user_input) ==
    LET ssdp == fl0.source = "ssdp"
        parsed_url == _urlparse(Str(user_input.endpoint))
        fl == Enter(fl0, "init", user_input)
        fl1 == IF ssdp THEN [fl EXCEPT !.unique_id = fl.endpoint] ELSE fl
    IN
    IF ssdp /\ EntriesMatch(fl.endpoint)
    THEN Finished(fl, async_abort("already_configured"))
    ELSE IF ssdp /\ ~user_input.given
    THEN Shown(fl, async_show_form("init", {}, <<fl.name, fl.host>>))
    ELSE IF ssdp /\ UniqueIdConfigured(fl1.unique_id)
    THEN Finished(fl1, async_abort("already_configured"))
    ELSE IF ~user_input.given
    THEN Finished(fl1, async_abort("not_supported"))
    ELSE [fl1 EXCEPT !.pc = "methods",
                     !.l_name = user_input.name,
                     !.host = IF fl1.host = None THEN hostname(parsed_url)
                              ELSE fl1.host,
                     !.l_endpoint = EndpointOf(fl1, parsed_url)]

\* async_step_user (lines 60-70)
StepUser(fl0, user_input) ==
    LET fl == Enter(fl0, "user", user_input) IN
    IF user_input.given THEN StepInit(fl, user_input)
    ELSE Shown(fl, async_show_form("user", {}, <<>>))

\* async_step_import (lines 165-169)
StepImport(fl0, user_input) == StepInit(Enter(fl0, "import", user_input), user_input)

\* line 155
IsBraviaNever(service_types) == FALSE
IsBravia(service_types) == "videoScreen" \in service_types

\* async_step_ssdp (lines 138-163)
StepSsdp(fl0, discovery_info) ==
    LET fl == [Enter(fl0, "ssdp", NoInput) EXCEPT !.unique_id = discovery_info.udn]
        fl1 == [fl EXCEPT !.name = discovery_info.friendlyName,
                          !.host = Str(hostname(urlparse(discovery_info.location))),
                          !.endpoint = discovery_info.baseURL]
    IN
    IF UniqueIdConfigured(fl.unique_id)
    THEN Finished(fl, async_abort("already_configured"))
    ELSE IF IsBravia(discovery_info.serviceTypes)
    THEN Finished(fl1, async_abort("not_songpal_device"))
    ELSE StepInit(fl1, NoInput)

\* the except clause and the error form (lines 110-122)
SongpalExceptionAbortsAll(fl) ==
    Finished([fl EXCEPT !.probe = "fail"], async_abort("cannot_connect"))
SongpalExceptionCaught(fl) ==
    LET fl1 == [fl EXCEPT !.probe = "fail"] IN
    IF fl.source \in {"import", "ssdp"}
    THEN Finished(fl1, async_abort("cannot_connect"))
    ELSE Shown(fl1, async_show_form("user",
                      {<<"endpoint", "Connection failed">>,
                       <<"base", "cannot_connect">>}, <<>>))

\* lines 107-108
ModelNameOfProduct(interface_info) == interface_info.productName
ModelNameOf(interface_info) == interface_info.modelName

\* lines 124-136: the result of the step, and whether it stores an entry
CreateUnchecked(fl, name) ==
    Finished([fl EXCEPT !.unique_id = fl.l_endpoint, !.probe = "ok"],
             async_create_entry(Str(name),
                                [name |-> name, endpoint |-> fl.l_endpoint]))
\* the checks of lines 78 and 87 repeated: self.endpoint where the local is meant
CreateCheckingSelfEndpoint(fl, name) ==
    LET fl1 == [fl EXCEPT !.probe = "ok"]
        fl2 == [fl1 EXCEPT !.unique_id = fl.endpoint]
    IN
    IF EntriesMatch(fl.endpoint)
    THEN Finished(fl1, async_abort("already_configured"))
    ELSE IF UniqueIdConfigured(fl2.unique_id)
    THEN Finished(fl2, async_abort("already_configured"))
    ELSE Finished(fl2, async_create_entry(Str(name),
                           [name |-> name, endpoint |-> fl.l_endpoint]))
CreateOrAbort(fl, name) ==
    LET fl1 == [fl EXCEPT !.probe = "ok"]
        fl2 == [fl1 EXCEPT !.unique_id = fl.l_endpoint]
    IN
    IF EntriesMatch(fl.l_endpoint)
    THEN Finished(fl1, async_abort("already_configured"))
    ELSE IF UniqueIdConfigured(fl2.unique_id)
    THEN Finished(fl2, async_abort("already_configured"))
    ELSE Finished(fl2, async_create_entry(Str(name),
                           [name |-> name, endpoint |-> fl.l_endpoint]))

\* line 105
NameAfterMethods(fl) == PyOr(fl.l_name, fl.name)

-----------------------------------------------------------------------------
(* What reaches the flows from outside *)

NAME_C == <<"C">>
NAME_F == <<"F">>
NAME_M == <<"M">>
NAME_P == <<"P">>
UDN_U == <<"u">>

InputEndpoints == {None, HOST_H, URL_H}
InputNames == {None, NAME_C}
UserInputs ==
    {NoInput} \cup
    {[given |-> TRUE, endpoint |-> e, name |-> n] : e \in InputEndpoints, n \in InputNames}

\* what the flow manager lets through to the step of a form on show: None, or
\* input that CONFIG_SCHEMA (lines 40-44) accepts for the user form (an endpoint
\* string and no other key); the init form has no schema: the empty dict of a
\* confirmation, or a dict with an endpoint or a name
FormInputs(step_id) ==
    IF step_id = "user"
    THEN {ui \in UserInputs : ~ui.given \/ (ui.endpoint # None /\ ui.name = None)}
    ELSE {ui \in UserInputs :
             ~ui.given \/ <<ui.endpoint, ui.name>> \in
                 {<<None, None>>, <<HOST_H, None>>, <<None, NAME_C>>}}

Discoveries ==
    {[given |-> TRUE, udn |-> UDN_U, friendlyName |-> NAME_F, location |-> URL_T,
      baseURL |-> b, serviceTypes |-> s] :
        b \in {URL_H, URL_T}, s \in {{"audio"}, {"audio", "videoScreen"}}}

\* what Device.get_interface_information may answer
InterfaceInfos == {[given |-> TRUE, modelName |-> NAME_M, productName |-> NAME_P]}

\* a call from the flow manager starts a new chain of step handlers
Call(fl) ==
    [fl EXCEPT !.steps = <<>>, !.probe = "none", !.result = NoResult, !.dup = FALSE]

Store(f, fl) ==
    /\ flows' = [flows EXCEPT ![f] = fl]
    /\ entries' = IF fl.result.type = "create_entry" THEN AddEntry(fl) ELSE entries

\* for the properties: whether the call has run the init step with the
\* endpoint of an entry that the registry holds already
RunWithConfigured(fl) ==
    /\ fl.steps # <<>>
    /\ fl.steps[Len(fl.steps)] = "init"
    /\ IF fl.source = "ssdp" THEN EntriesMatch(fl.endpoint)
       ELSE /\ fl.user_input.given
            /\ EntriesMatch(EndpointOf(fl, _urlparse(Str(fl.user_input.endpoint))))
StoreCalled(f, fl) == Store(f, [fl EXCEPT !.dup = RunWithConfigured(fl)])

CanStart(f) ==
    /\ flows[f].pc = "idle"
    /\ IF f = 1 THEN TRUE ELSE flows[f - 1].pc # "idle"

\* the flow manager starts a flow with source user and calls async_step_user
StartUser(f, user_input) ==
    /\ CanStart(f)
    /\ StoreCalled(f, StepUser([NewFlow EXCEPT !.source = "user"], user_input))
    /\ UNCHANGED <<opt, urlVars, tableVars>>

\* ... with source import: async_step_import
StartImport(f, user_input) ==
    /\ CanStart(f)
    /\ StoreCalled(f, StepImport([NewFlow EXCEPT !.source = "import"], user_input))
    /\ UNCHANGED <<opt, urlVars, tableVars>>

\* ... with source ssdp: async_step_ssdp
StartSsdp(f, discovery_info) ==
    /\ CanStart(f)
    /\ StoreCalled(f, StepSsdp([NewFlow EXCEPT !.source = "ssdp",
                                         !.discovery = discovery_info],
                         discovery_info))
    /\ UNCHANGED <<opt, urlVars, tableVars>>

\* the form on show is submitted: the flow manager calls the step it names
Submit(f, user_input) ==
    LET fl == flows[f]
        fl1 == [Call(fl) EXCEPT !.confirmed =
                   fl.confirmed \/ (fl.result.step_id = "init" /\ user_input.given)]
    IN
    /\ fl.pc = "form"
    /\ user_input \in FormInputs(fl.result.step_id)
    /\ StoreCalled(f, IF fl.result.step_id = "user" THEN StepUser(fl1, user_input)
                ELSE StepInit(fl1, user_input))
    /\ UNCHANGED <<opt, urlVars, tableVars>>

\* await device.get_supported_methods() returns (lines 104-106)
MethodsOk(f) ==
    LET fl == flows[f]
        name == NameAfterMethods(fl)
    IN
    /\ fl.pc = "methods"
    /\ Store(f, IF name = None THEN [fl EXCEPT !.pc = "interface", !.l_name = name]
                ELSE CreateOrAbort([fl EXCEPT !.l_name = name], name))
    /\ UNCHANGED <<opt, urlVars, tableVars>>

\* await device.get_interface_information() returns (lines 107-108)
InterfaceOk(f, interface_info) ==
    LET fl == flows[f]
        name == ModelNameOf(interface_info)
    IN
    /\ fl.pc = "interface"
    /\ Store(f, CreateOrAbort([fl EXCEPT !.l_name = name, !.info = interface_info],
                              name))
    /\ UNCHANGED <<opt, urlVars, tableVars>>

\* either await raises SongpalException
ProbeFail(f) ==
    /\ flows[f].pc \in {"methods", "interface"}
    /\ Store(f, SongpalExceptionCaught(flows[f]))
    /\ UNCHANGED <<opt, urlVars, tableVars>>

-----------------------------------------------------------------------------
(* SongpalOptionsFlowHandler *)

SCRIPT_S == <<"s">>
SCRIPT_T == <<"t">>
SCRIPT_X == <<"x">>
\* hass.states.async_entity_ids("script")
KnownScripts == {SCRIPT_S, SCRIPT_T}

NoOptionData == [name |-> None, on_action |-> None, wol |-> FALSE]
NoOptionInput == [given |-> FALSE, name |-> None, on_action |-> None, wol |-> FALSE]
OptionInputs ==
    {NoOptionInput} \cup
    {[given |-> TRUE, name |-> n, on_action |-> a, wol |-> w] :
        n \in {NAME_C, NAME_F, NAME_M}, a \in {None, SCRIPT_S, SCRIPT_T, SCRIPT_X},
        w \in BOOLEAN}

NoOptionResult ==
    [type |-> "none", step_id |-> "", reason |-> "", errors |-> {},
     title |-> None, data |-> NoOptionData]
\* the last call of the options step, and config_entry.options
NoOpt == [user_input |-> NoOptionInput, result |-> NoOptionResult,
          options |-> NoOptionData]

\* a local that no statement has bound yet
Unbound == {<<"<unbound>", "<unbound>">>}

\* lines 187-195: errors is bound only inside  if user_input is not None
OptionErrors(user_input) ==
    IF ~user_input.given THEN Unbound
    ELSE IF user_input.on_action # None /\ user_input.on_action \notin KnownScripts
    THEN {<<"turn_on_action", "Script not found.">>}
    ELSE {}

\* SongpalOptionsFlowHandler.async_step_init (lines 181-224)
OptionsStepInit(user_input) ==
    LET errors == OptionErrors(user_input) IN
    IF user_input.given /\ errors = {}
    THEN [NoOptionResult EXCEPT
             !.type = "create_entry", !.title = <<>>,
             !.data = [name |-> user_input.name, on_action |-> user_input.on_action,
                       wol |-> user_input.wol]]
    ELSE IF errors = Unbound
    THEN \* line 223 reads the unbound local
         [NoOptionResult EXCEPT !.type = "error", !.reason = "UnboundLocalError"]
    ELSE [NoOptionResult EXCEPT !.type = "form", !.step_id = "init", !.errors = errors]

\* the options flow of an entry of the registry is called; the flow manager
\* stores the data of a create-entry result as the entry's options
Options(i, user_input) ==
    LET result == OptionsStepInit(user_input) IN
    /\ i \in DOMAIN entries
    /\ opt' = [user_input |-> user_input, result |-> result,
               options |-> IF result.type = "create_entry" THEN result.data
                           ELSE opt.options]
    /\ UNCHANGED <<flows, entries, urlVars, tableVars>>

-----------------------------------------------------------------------------
(* Specifications *)

FlowInit == flows = [f \in FlowIds |-> NewFlow] /\ entries = <<>> /\ opt = NoOpt
Init == FlowInit /\ UrlIdle /\ TableIdle

Next ==
    \/ \E f \in FlowIds, user_input \in UserInputs : StartUser(f, user_input)
    \/ \E f \in FlowIds, user_input \in UserInputs : StartImport(f, user_input)
    \/ \E f \in FlowIds, discovery_info \in Discoveries : StartSsdp(f, discovery_info)
    \/ \E f \in FlowIds, user_input \in UserInputs : Submit(f, user_input)
    \/ \E f \in FlowIds : MethodsOk(f)
    \/ \E f \in FlowIds, interface_info \in InterfaceInfos : InterfaceOk(f, interface_info)
    \/ \E f \in FlowIds : ProbeFail(f)

Spec == Init /\ [][Next]_vars

\* the options flow of an entry that a user flow created
CONFIGURED ==
    <<[unique_id |-> URL_H, title |-> NAME_M,
       data |-> [name |-> NAME_M, endpoint |-> URL_H]]>>
InitOptions ==
    /\ flows = [f \in FlowIds |-> NewFlow]
    /\ entries = CONFIGURED
    /\ opt = NoOpt
    /\ UrlIdle
    /\ TableIdle
OptionsNext == \E i \in DOMAIN entries, user_input \in OptionInputs : Options(i, user_input)
SpecOptions == InitOptions /\ [][OptionsNext]_vars

\* _urlparse applied to each bounded endpoint string
UrlNext == UrlParseCall
InitUrl == FlowInit /\ UrlInit /\ TableIdle
SpecUrl == InitUrl /\ [][UrlNext]_vars

\* the pass over the sensor table
TableNext == TableNextColumn \/ TableNextRow
InitTable == FlowInit /\ UrlIdle /\ TableInit
SpecTable == InitTable /\ [][TableNext]_vars

-----------------------------------------------------------------------------
(* Properties *)

Flow(f) == flows[f]
Probing(fl) == fl.pc \in {"methods", "interface"}
ConnectionErrors == {<<"endpoint", "Connection failed">>, <<"base", "cannot_connect">>}
StoredBy(fl) ==
    \E i \in DOMAIN entries :
        /\ entries[i].title = fl.result.title
        /\ entries[i].data = fl.result.data

\* C1, as stated: for every source and every probe outcome, an init step run
\* with the endpoint of an entry the registry already holds ends the flow with
\* abort reason already_configured
C1_AbortsWhateverTheProbe ==
    \A f \in FlowIds :
        (Flow(f).dup /\ ~Probing(Flow(f)))
            => Flow(f).result = async_abort("already_configured")

\* C1, amended: an init step run with the endpoint of an entry the registry
\* already holds creates no entry; it ends the flow with abort reason
\* already_configured when the source is ssdp (before any probe) or the probe
\* succeeds; when the probe fails the outcome is that of a failed probe
\* (cannot_connect: a user flow shows the form again, an import flow aborts)
C1_AlreadyConfigured ==
    \A f \in FlowIds :
        Flow(f).dup =>
            /\ Flow(f).result.type # "create_entry"
            /\ (Flow(f).source = "ssdp" \/ Flow(f).probe = "ok")
                   => /\ Flow(f).pc = "done"
                      /\ Flow(f).result = async_abort("already_configured")
            /\ (Flow(f).source = "ssdp") => Flow(f).probe = "none"
            /\ (Flow(f).probe = "fail" /\ Flow(f).source = "import")
                   => Flow(f).result = async_abort("cannot_connect")
            /\ (Flow(f).probe = "fail" /\ Flow(f).source = "user")
                   => Flow(f).result = async_show_form("user", ConnectionErrors, <<>>)

\* a user flow run with the endpoint of the entry that was there has ended
\* with already_configured after its probe, and the registry holds one entry
C1_Witness ==
    \E f \in FlowIds :
        /\ Flow(f).dup
        /\ Flow(f).source = "user"
        /\ Flow(f).probe = "ok"
        /\ Flow(f).result = async_abort("already_configured")
        /\ Len(entries) = 1

\* C2: the registry never holds two entries with equal endpoint data, nor two
\* with equal unique ids; the unique id of an entry is its endpoint
C2_NoDuplicateEntries ==
    /\ \A i, j \in DOMAIN entries :
          i # j => /\ entries[i].data.endpoint # entries[j].data.endpoint
                   /\ entries[i].unique_id # entries[j].unique_id
    /\ \A i \in DOMAIN entries : entries[i].unique_id = entries[i].data.endpoint

\* two flows with one endpoint were suspended at the probe together (no entry
\* held it when either ran its init step); one has created the entry and the
\* other, resumed later, has aborted
C2_Witness ==
    \E f, g \in FlowIds :
        /\ f # g
        /\ Flow(f).l_endpoint = Flow(g).l_endpoint
        /\ ~Flow(f).dup /\ ~Flow(g).dup
        /\ Flow(f).probe = "ok" /\ Flow(g).probe = "ok"
        /\ Flow(f).result.type = "create_entry"
        /\ Flow(g).result = async_abort("already_configured")

\* C3: the step in which a probe fails aborts an import or ssdp flow with
\* reason cannot_connect and shows a user flow the form of step user with an
\* endpoint error and the base error cannot_connect; it leaves the registry as
\* it is and leaves the flow at no probe
C3_ProbeFailure ==
    [][\A f \in FlowIds :
          (Probing(flows[f]) /\ flows'[f].probe = "fail") =>
              /\ entries' = entries
              /\ ~Probing(flows'[f])
              /\ flows'[f].source \in {"import", "ssdp"}
                    => /\ flows'[f].pc = "done"
                       /\ flows'[f].result = async_abort("cannot_connect")
              /\ flows'[f].source = "user"
                    => /\ flows'[f].pc = "form"
                       /\ flows'[f].result =
                              async_show_form("user", ConnectionErrors, <<>>)]_vars

\* a user flow is back at its form, and an ssdp flow has aborted, after a
\* failed probe
C3_Witness ==
    \E f, g \in FlowIds :
        /\ Flow(f).probe = "fail" /\ Flow(f).source = "user" /\ Flow(f).pc = "form"
        /\ Flow(g).probe = "fail" /\ Flow(g).source = "ssdp" /\ Flow(g).pc = "done"

NoNameGiven(fl) == fl.user_input.given /\ fl.user_input.name = None

\* C4, as stated: for every source, an entry created from input without a name
\* has the model name of the device's interface information as title and name
C4_ModelNameForEverySource ==
    \A f \in FlowIds :
        (Flow(f).result.type = "create_entry" /\ NoNameGiven(Flow(f))) =>
            \E interface_info \in InterfaceInfos :
                /\ Flow(f).result.title = Str(interface_info.modelName)
                /\ Flow(f).result.data.name = interface_info.modelName

\* C4, amended: for the sources user and import, an entry created from input
\* without a name has the model name the device reported as its title and
\* name; for the source ssdp it has the friendly name of the discovery payload,
\* and the device is not asked for its interface information
C4_DefaultName ==
    \A f \in FlowIds :
        (Flow(f).result.type = "create_entry" /\ NoNameGiven(Flow(f))) =>
            /\ StoredBy(Flow(f))
            /\ Flow(f).source \in {"user", "import"} =>
                  /\ Flow(f).info.given
                  /\ Flow(f).result.title = Str(Flow(f).info.modelName)
                  /\ Flow(f).result.data.name = Flow(f).info.modelName
            /\ Flow(f).source = "ssdp" =>
                  /\ ~Flow(f).info.given
                  /\ Flow(f).result.title = Str(Flow(f).discovery.friendlyName)
                  /\ Flow(f).result.data.name = Flow(f).discovery.friendlyName

\* a user flow and an ssdp flow have each created an entry from input without
\* a name
C4_Witness ==
    \E f, g \in FlowIds :
        /\ Flow(f).source = "user" /\ Flow(g).source = "ssdp"
        /\ Flow(f).result.type = "create_entry" /\ NoNameGiven(Flow(f))
        /\ Flow(g).result.type = "create_entry" /\ NoNameGiven(Flow(g))

\* C5: a flow discovered with videoScreen among its service types, its device
\* identifier not configured, has aborted with reason not_songpal_device in
\* the ssdp step: no init step, no form, no probe, no entry
C5_BraviaIgnored ==
    \A f \in FlowIds :
        (/\ Flow(f).source = "ssdp"
         /\ "videoScreen" \in Flow(f).discovery.serviceTypes
         /\ ~UniqueIdConfigured(Flow(f).discovery.udn)) =>
            /\ Flow(f).pc = "done"
            /\ Flow(f).result = async_abort("not_songpal_device")
            /\ Flow(f).steps = <<"ssdp">>
            /\ Flow(f).probe = "none"
            /\ ~Flow(f).confirmed
            /\ \A i \in DOMAIN entries : entries[i].unique_id # Flow(f).unique_id

\* a flow discovered with videoScreen among its service types has aborted
C5_Witness ==
    \E f \in FlowIds :
        /\ Flow(f).source = "ssdp"
        /\ "videoScreen" \in Flow(f).discovery.serviceTypes
        /\ Flow(f).result = async_abort("not_songpal_device")

\* a bare host name or IP address: letters, digits and dots
BareHost(s) ==
    /\ s # <<>>
    /\ \A k \in 1..Len(s) : s[k] \in Letters \cup Digits \cup {"."}
    /\ s[1] # "."

\* C6: for an endpoint that is a bare host name or IP address, _urlparse
\* returns scheme http, network location <input>:10000 and path sony, so that
\* the host name is the input and the URL differs from the input
C6_BareHostNormalised ==
    (url_out # <<>> /\ BareHost(url_in)) =>
        /\ url_out[1] = [scheme |-> HTTP, netloc |-> url_in \o PORT_SUFFIX,
                         path |-> SONY]
        /\ hostname(url_out[1]) = LowerStr(url_in)
        /\ geturl(url_out[1]) # url_in

FrameworkResults == {"form", "abort", "create_entry"}

\* C7: every step returns a form, an abort or a create-entry result and never
\* ends in an uncaught error; the options step called with no input shows the
\* form of step init
C7_AlwaysAFrameworkResult ==
    /\ \A f \in FlowIds :
          Flow(f).pc \in {"form", "done"} => Flow(f).result.type \in FrameworkResults
    /\ opt.result.type \in FrameworkResults \cup {"none"}
    /\ (opt.result.type # "none" /\ ~opt.user_input.given)
          => (opt.result.type = "form" /\ opt.result.step_id = "init")

\* C8: no two descriptors of the table have the same key
C8_KeysUnique ==
    \A i \in 1..ti, j \in 1..tj :
        i # j => STORAGE_SENSOR_TYPES[i].key # STORAGE_SENSOR_TYPES[j].key

\* the pass has compared the last descriptor with the one before it
C8_Witness == ti = NumDescriptors /\ tj = NumDescriptors - 1

\* C9: a kilowatt-hour descriptor declares state class TOTAL exactly when it
\* is a lifetime total (key ending in _lifetime or _total, source field ending
\* in Total); a daily one (source field ending in Today) and one of any other
\* unit declare none
C9_TotalOnlyOnLifetime ==
    \A i \in 1..ti :
        LET d == STORAGE_SENSOR_TYPES[i] IN
        /\ IsEnergy(d) =>
              /\ d.state_class = "TOTAL" <=> (KeyIsLifetime(d) /\ ApiIsTotal(d))
              /\ KeyIsLifetime(d) <=> ApiIsTotal(d)
        /\ ApiIsToday(d) => d.state_class = "None"
        /\ ~IsEnergy(d) => d.state_class = "None"

\* the pass stands on a lifetime total that follows daily and other-unit
\* descriptors
C9_Witness ==
    /\ ti > 1
    /\ tj = 1
    /\ IsEnergy(STORAGE_SENSOR_TYPES[ti])
    /\ STORAGE_SENSOR_TYPES[ti].state_class = "TOTAL"
    /\ Last(STORAGE_SENSOR_TYPES[ti].key) = "total"

\* C10: an ssdp flow has created an entry only after its init form was shown
\* and submitted with input, and the entry's endpoint is the base URL of the
\* discovery payload whatever the input's endpoint; a flow of another source
\* whose init step was run with no input has aborted with not_supported
C10_DiscoveryConfirmed ==
    \A f \in FlowIds :
        /\ (Flow(f).source = "ssdp" /\ Flow(f).result.type = "create_entry") =>
              /\ Flow(f).confirmed
              /\ Flow(f).user_input.given
              /\ Flow(f).result.data.endpoint = Flow(f).discovery.baseURL
              /\ StoredBy(Flow(f))
        /\ (/\ Flow(f).source \in {"user", "import"}
            /\ Flow(f).steps # <<>>
            /\ Last(Flow(f).steps) = "init"
            /\ ~Flow(f).user_input.given) =>
              /\ Flow(f).pc = "done"
              /\ Flow(f).result = async_abort("not_supported")

\* an ssdp flow has created its entry from input that carried another
\* endpoint, and an import flow was started with no input
C10_Witness ==
    \E f, g \in FlowIds :
        /\ Flow(f).source = "ssdp" /\ Flow(f).result.type = "create_entry"
        /\ Flow(f).user_input.endpoint \notin {None, Flow(f).discovery.baseURL}
        /\ Flow(g).source = "import" /\ ~Flow(g).user_input.given
        /\ Flow(g).result = async_abort("not_supported")

=============================================================================
